---- MODULE Spec2Model ----
(***************************************************************************)
(* The extraction driver of src/pipeline/extraction.py (extract_data and   *)
(* the helpers it calls) as a state machine over the two persistent tables *)
(* raw.extraction_log (the ledger) and raw.air_quality (the target table). *)
(*                                                                         *)
(* A "YYYY-MM" string is the pair <<year, month>>; a datetime produced by  *)
(* strptime(.., "%Y-%m") is a month index year*12 + (month-1) at day 1,    *)
(* 00:00:00.  A reading of datetime.now() is the month index of the clock  *)
(* and a time of day, exactly midnight (tod = 0) or later (tod = 1): the   *)
(* day of the month is dropped by every use the code makes of the reading  *)
(* (strftime "%Y-%m", replace(day=1)), the time of day is not.  The clock  *)
(* variable keeps the month; the time of day is drawn at each reading.     *)
(***************************************************************************)
EXTENDS Integers, Sequences, FiniteSets, Bags, TLC

VARIABLES
    now,            \* the clock: the month index of datetime.now()
    missing,        \* remote partitions that do not exist (load raises IOException)
    extraction_log, \* raw.extraction_log: sequence of job rows, extraction_id = index
    air_quality,    \* raw.air_quality: bag of rows [location_id, year, month]
    frame,          \* the locals of the running extract_data call, and its position
    hist            \* history of the run: calls made, locators attempted, rows inserted

vars == <<now, missing, extraction_log, air_quality, frame, hist>>

-----------------------------------------------------------------------------
(* Bounds of the model *)

MaxRuns == 2            \* runs of extract_data in one behaviour
MaxClockAdvance == 1    \* months the clock may advance past ClockStart
RowsPerFile == 2        \* rows in every remote partition file that exists
MaxLocations == 3       \* locations in a registry given to compile_data_file_paths
PathMonths == 5         \* months a range given to compile_data_file_paths is drawn from

(* Program constants *)
FallbackMonths == 3     \* relativedelta(months=3), first incremental run

ClockStart == <<2024, 12>>          \* the month the clock starts in
Locations == <<"A", "B">>           \* read_location_ids: registry order

None == <<>>                        \* Python None / SQL NULL / a missing argument
Some(v) == <<v>>
Unset == {}                         \* a NULL column / an unbound local
Set(v) == {v}

-----------------------------------------------------------------------------
(* Month arithmetic: datetime.strptime / strftime / relativedelta *)

strptime(s) == s[1] * 12 + (s[2] - 1)
strftime(i) == <<i \div 12, (i % 12) + 1>>

\* Comparison of two "YYYY-MM" strings as strings (year, then zero-padded month)
StrLeq(a, b) == a[1] < b[1] \/ (a[1] = b[1] /\ a[2] <= b[2])

\* datetime >= datetime, both at day 1: month first, then time of day
DtGeq(a, b) == a.ym > b.ym \/ (a.ym = b.ym /\ a.tod >= b.tod)

ClockMonths == strptime(ClockStart) .. (strptime(ClockStart) + MaxClockAdvance)
\* --start_date / --end_date of a manual run: the clock's first month or the next
ArgDates == {ClockStart, strftime(strptime(ClockStart) + 1)}
\* the runs with a date missing
ArgsMissing == {<<None, ClockStart>>, <<ClockStart, None>>}

SetMax(S) == CHOOSE x \in S : \A y \in S : y <= x

-----------------------------------------------------------------------------
(* The ledger *)

\* The view raw.last_successful_extraction: end_date of the latest completed job
last_successful_extraction(log) ==
    LET done == {i \in DOMAIN log : log[i].status = "completed"}
    IN  IF done = {} THEN None ELSE log[SetMax(done)].end_date

get_last_extraction_date(log, read_ok) ==
    IF read_ok THEN last_successful_extraction(log) ELSE None

\* The resolver resuming at the last extracted month instead of the month after
determine_date_range_resume_at_last(log, read_ok, clock) ==
    LET last_end_date == get_last_extraction_date(log, read_ok)
        start_date == IF last_end_date # None
                      THEN strftime(strptime(last_end_date))
                      ELSE strftime(clock - FallbackMonths)
        end_date == strftime(clock)
    IN  <<start_date, end_date>>

\* The resolver starting a first run at the current month
determine_date_range_first_at_now(log, read_ok, clock) ==
    LET last_end_date == get_last_extraction_date(log, read_ok)
        start_date == IF last_end_date # None
                      THEN strftime(strptime(last_end_date) + 1)
                      ELSE strftime(clock)
        end_date == strftime(clock)
    IN  <<start_date, end_date>>

determine_date_range(log, read_ok, clock) ==
    LET last_end_date == get_last_extraction_date(log, read_ok)
        start_date == IF last_end_date # None
                      THEN strftime(strptime(last_end_date) + 1)
                      ELSE strftime(clock - FallbackMonths)
        end_date == strftime(clock)
    IN  <<start_date, end_date>>

\* extract_data's "already up to date" test
\* last_end_dt >= datetime.now().replace(day=1)
up_to_date(last_end_date, clock, tod) ==
    /\ last_end_date # None
    /\ DtGeq([ym |-> strptime(last_end_date), tod |-> 0],
             [ym |-> clock, tod |-> tod])

log_extraction_start(log, start_date, end_date, clock) ==
    Append(log, [extraction_id |-> Len(log) + 1,
                 extraction_start_datetime |-> clock,
                 extraction_end_datetime |-> Unset,
                 start_date |-> start_date,
                 end_date |-> end_date,
                 status |-> "running",
                 records_extracted |-> Unset,
                 error_message |-> Unset])

log_extraction_complete(log, extraction_id, records_extracted, clock) ==
    [i \in DOMAIN log |->
        IF log[i].extraction_id = extraction_id
        THEN [log[i] EXCEPT !.extraction_end_datetime = Set(clock),
                            !.status = "completed",
                            !.records_extracted = Set(records_extracted)]
        ELSE log[i]]

\* log_extraction_failed with its WHERE clause lost: every row is updated
log_extraction_failed_every_row(log, extraction_id, error_message, clock) ==
    [i \in DOMAIN log |->
        [log[i] EXCEPT !.extraction_end_datetime = Set(clock),
                       !.status = "failed",
                       !.error_message = Set(error_message)]]

\* log_extraction_failed writing a row count of 0 as well
log_extraction_failed_with_count(log, extraction_id, error_message, clock) ==
    [i \in DOMAIN log |->
        IF log[i].extraction_id = extraction_id
        THEN [log[i] EXCEPT !.extraction_end_datetime = Set(clock),
                            !.status = "failed",
                            !.records_extracted = Set(0),
                            !.error_message = Set(error_message)]
        ELSE log[i]]

log_extraction_failed(log, extraction_id, error_message, clock) ==
    [i \in DOMAIN log |->
        IF log[i].extraction_id = extraction_id
        THEN [log[i] EXCEPT !.extraction_end_datetime = Set(clock),
                            !.status = "failed",
                            !.error_message = Set(error_message)]
        ELSE log[i]]

-----------------------------------------------------------------------------
(* Partition paths, the guard's delete, the load and the row count *)

\* The month loop stopping before the end month
RECURSIVE month_paths_before_end(_, _, _)
month_paths_before_end(location_id, index_date, end_dt) ==
    IF index_date < end_dt
    THEN <<[location_id |-> location_id,
            year |-> strftime(index_date)[1],
            month |-> strftime(index_date)[2]]>>
         \o month_paths_before_end(location_id, index_date + 1, end_dt)
    ELSE <<>>

RECURSIVE month_paths(_, _, _)
month_paths(location_id, index_date, end_dt) ==
    IF index_date <= end_dt
    THEN <<[location_id |-> location_id,
            year |-> strftime(index_date)[1],
            month |-> strftime(index_date)[2]]>>
         \o month_paths(location_id, index_date + 1, end_dt)
    ELSE <<>>

RECURSIVE location_paths(_, _, _)
location_paths(location_ids, start_dt, end_dt) ==
    IF location_ids = <<>> THEN <<>>
    ELSE month_paths(Head(location_ids), start_dt, end_dt)
         \o location_paths(Tail(location_ids), start_dt, end_dt)

compile_data_file_paths(location_ids, start_date, end_date) ==
    location_paths(location_ids, strptime(start_date), strptime(end_date))

\* A delete that removes nothing
delete_month_nothing(table, index_date) == table

\* A delete that matches the year only
delete_month_whole_year(table, index_date) ==
    LET keep == {r \in DOMAIN table : ~(r.year = strftime(index_date)[1])}
    IN  [r \in keep |-> table[r]]

\* DELETE FROM raw.air_quality WHERE year = .. AND month = '..'
delete_month(table, index_date) ==
    LET keep == {r \in DOMAIN table :
                    ~(r.year = strftime(index_date)[1]
                      /\ r.month = strftime(index_date)[2])}
    IN  [r \in keep |-> table[r]]

\* The insert of one partition file: its rows carry the partition's keys
load_partition(table, path) ==
    table (+) [r \in {path} |-> RowsPerFile]

\* SELECT COUNT(*) .. WHERE year || '-' || month >= ? AND year || '-' || month <= ?
count_rows(table, start_date, end_date) ==
    LET in_range == {r \in DOMAIN table :
                        /\ StrLeq(start_date, <<r.year, r.month>>)
                        /\ StrLeq(<<r.year, r.month>>, end_date)}
    IN  BagCardinality([r \in in_range |-> table[r]])

\* What the storage engine answers to the load of one path
LoadOutcomes(path) ==
    IF <<path.location_id, <<path.year, path.month>>>> \in missing
    THEN {"not_found", "error"}
    ELSE {"ok", "error"}

-----------------------------------------------------------------------------
(* The run *)

NoFrame ==
    [pc |-> "idle", location_ids |-> <<>>,
     incremental |-> FALSE, arg_start |-> None, arg_end |-> None,
     start_date |-> None, end_date |-> None, extraction_id |-> Unset,
     data_file_paths |-> <<>>, i |-> 1, index_date |-> 0,
     successful_extractions |-> 0, records_extracted |-> Unset,
     exc |-> Unset, outcome |-> "none"]

\* History of the current run (not program state):
\*   calls      per job: invocations of complete / fail, times its status left
\*              'running', and which of the two writes raised
\*   faults     the errors the environment injected into this run, in order
\*   attempted  the paths whose load was submitted, in order
\*   short_circuit  the run took the "already up to date" return
\*   opens      calls of log_extraction_start
\*   guards     calls of delete_existing_data
\*   deleted    the months the guard deleted, in order
\*   inserted   rows this run's loads inserted
\*   resolved   what the resolver's ledger read returned (None: nothing, or it raised)
\*   checked    what the up-to-date test read: the ledger's answer and the month
\*   closes     calls of close_database_connection
\*   table0     raw.air_quality when the run started
\*   log0       raw.extraction_log when the run started
\*   prev       summary of the previous run
NoHist ==
    [runs |-> 0, calls |-> <<>>, faults |-> <<>>, attempted |-> <<>>,
     short_circuit |-> FALSE, opens |-> 0, guards |-> 0, deleted |-> <<>>, inserted |-> 0, resolved |-> None, checked |-> None,
     closes |-> 0, table0 |-> EmptyBag, log0 |-> <<>>, prev |-> None]

\* What a finished run leaves for the next one to be compared with
Summary ==
    IF frame.pc # "done" THEN None
    ELSE Some([incremental |-> frame.incremental,
               start_date |-> frame.start_date,
               end_date |-> frame.end_date,
               job |-> frame.extraction_id,
               completed |-> /\ frame.extraction_id # Unset
                             /\ \A id \in frame.extraction_id :
                                   extraction_log[id].status = "completed"])

Raise(f, msg) == [f EXCEPT !.pc = "except", !.exc = Set(msg)]

Fault(h, msg) == [h EXCEPT !.faults = Append(h.faults, msg)]

Called(calls, id, which) ==
    [calls EXCEPT ![id] = [@ EXCEPT ![which] = @ + 1]]

Raised(calls, id, which) ==
    [calls EXCEPT ![id] = [@ EXCEPT !.raised = @ \cup {which}]]

Left(calls, id, log, log2) ==
    IF log[id].status = "running" /\ log2[id].status # "running"
    THEN [calls EXCEPT ![id] = [@ EXCEPT !.left = @ + 1]]
    ELSE calls

Init ==
    /\ now = strptime(ClockStart)
    /\ missing \in SUBSET {<<Locations[k], ClockStart>> : k \in DOMAIN Locations}
    /\ extraction_log = <<>>
    /\ air_quality = EmptyBag
    /\ frame = NoFrame
    /\ hist = NoHist

\* The clock reaches a later month: between runs, and between the resolver's
\* reading of it and the driver's
Tick ==
    /\ frame.pc \in {"idle", "done", "check"}
    /\ \E ym \in ClockMonths :
          /\ ym > now
          /\ now' = ym
    /\ UNCHANGED <<missing, extraction_log, air_quality, frame, hist>>

\* extract_data is called: read_location_ids and connect_to_database
StartRun ==
    /\ frame.pc \in {"idle", "done"}
    /\ hist.runs < MaxRuns
    /\ \E incremental \in BOOLEAN, s \in ArgDates \cup {None}, e \in ArgDates \cup {None},
          locations_ok \in BOOLEAN :
          /\ incremental => (s = None /\ e = None)
          /\ ~incremental => (<<s, e>> \in (ArgDates \X ArgDates) \cup ArgsMissing)
          /\ frame' = [NoFrame EXCEPT
                         !.pc = IF locations_ok THEN "resolve" ELSE "done",
                         !.outcome = IF locations_ok THEN "none" ELSE "raised",
                         !.exc = IF locations_ok THEN Unset
                                 ELSE Set("locations unreadable"),
                         !.location_ids = IF locations_ok THEN Locations ELSE <<>>,
                         !.incremental = incremental,
                         !.arg_start = s, !.arg_end = e]
          /\ hist' = [NoHist EXCEPT
                         !.runs = hist.runs + 1,
                         !.calls = hist.calls,
                         !.faults = IF locations_ok THEN <<>>
                                    ELSE <<"locations unreadable">>,
                         !.table0 = air_quality,
                         !.log0 = extraction_log,
                         !.prev = Summary]
    /\ UNCHANGED <<now, missing, extraction_log, air_quality>>

\* Lines 178-184: the date range
Resolve ==
    /\ frame.pc = "resolve"
    /\ \/ /\ frame.incremental
          /\ \E read_ok \in BOOLEAN :
                LET range == determine_date_range(extraction_log, read_ok, now)
                IN  /\ frame' = [frame EXCEPT !.pc = "check",
                                              !.start_date = range[1],
                                              !.end_date = range[2]]
                    /\ hist' = [hist EXCEPT !.resolved =
                                  get_last_extraction_date(extraction_log, read_ok)]
       \/ /\ ~frame.incremental
          /\ frame' = IF frame.arg_start = None \/ frame.arg_end = None
                      THEN Raise(frame, "start_date and end_date are required")
                      ELSE [frame EXCEPT !.pc = "open",
                                         !.start_date = frame.arg_start,
                                         !.end_date = frame.arg_end]
          /\ UNCHANGED hist
    /\ UNCHANGED <<now, missing, extraction_log, air_quality>>

\* Lines 187-195: is there new data to extract
CheckUpToDate ==
    /\ frame.pc = "check"
    /\ \E read_ok \in BOOLEAN, tod \in {0, 1} :
          LET last_end_date == get_last_extraction_date(extraction_log, read_ok)
              seen == Some([last |-> last_end_date, month |-> strftime(now)])
          IN  IF up_to_date(last_end_date, now, tod)
              THEN /\ frame' = [frame EXCEPT !.pc = "finally"]
                   /\ hist' = [hist EXCEPT !.closes = hist.closes + 1,
                                           !.short_circuit = TRUE,
                                           !.checked = seen]
              ELSE /\ frame' = [frame EXCEPT !.pc = "open"]
                   /\ hist' = [hist EXCEPT !.checked = seen]
    /\ UNCHANGED <<now, missing, extraction_log, air_quality>>

\* The driver going on without a job when log_extraction_start raises
Open_or_go_on ==
    /\ frame.pc = "open"
    /\ \/ /\ extraction_log' = log_extraction_start(extraction_log, frame.start_date,
                                                    frame.end_date, now)
          /\ frame' = [frame EXCEPT !.pc = "prepare",
                                    !.extraction_id = Set(Len(extraction_log'))]
          /\ hist' = [hist EXCEPT !.opens = hist.opens + 1,
                         !.calls = Append(hist.calls,
                         [complete |-> 0, fail |-> 0, left |-> 0, raised |-> {}])]
       \/ /\ frame' = [frame EXCEPT !.pc = "prepare"]
          /\ hist' = [Fault(hist, "open error") EXCEPT !.opens = hist.opens + 1]
          /\ UNCHANGED extraction_log
    /\ UNCHANGED <<now, missing, air_quality>>

\* Line 198: log_extraction_start
Open ==
    /\ frame.pc = "open"
    /\ \/ /\ extraction_log' = log_extraction_start(extraction_log, frame.start_date,
                                                    frame.end_date, now)
          /\ frame' = [frame EXCEPT !.pc = "prepare",
                                    !.extraction_id = Set(Len(extraction_log'))]
          /\ hist' = [hist EXCEPT !.opens = hist.opens + 1,
                         !.calls = Append(hist.calls,
                         [complete |-> 0, fail |-> 0, left |-> 0, raised |-> {}])]
       \/ /\ frame' = Raise(frame, "open error")
          /\ hist' = [Fault(hist, "open error") EXCEPT !.opens = hist.opens + 1]
          /\ UNCHANGED extraction_log
    /\ UNCHANGED <<now, missing, air_quality>>

\* The driver calling delete_existing_data in incremental mode as well
Prepare_guard_always ==
    /\ frame.pc = "prepare"
    /\ LET paths == compile_data_file_paths(frame.location_ids,
                                            frame.start_date, frame.end_date)
       IN  \/ /\ frame' = [frame EXCEPT
                             !.pc = "guard",
                             !.data_file_paths = paths,
                             !.index_date = strptime(frame.start_date)]
              /\ hist' = [hist EXCEPT !.guards = hist.guards + 1]
           \/ /\ frame' = [Raise(frame, "template error") EXCEPT
                             !.data_file_paths = paths]
              /\ hist' = Fault(hist, "template error")
    /\ UNCHANGED <<now, missing, extraction_log, air_quality>>

\* Lines 201-212: compile_data_file_paths, then read_query, then the test of
\* the mode that decides whether delete_existing_data is called
Prepare ==
    /\ frame.pc = "prepare"
    /\ LET paths == compile_data_file_paths(frame.location_ids,
                                            frame.start_date, frame.end_date)
       IN  \/ /\ frame' = [frame EXCEPT
                             !.pc = IF frame.incremental THEN "load" ELSE "guard",
                             !.data_file_paths = paths,
                             !.index_date = strptime(frame.start_date)]
              /\ hist' = [hist EXCEPT !.guards =
                             IF frame.incremental THEN hist.guards ELSE hist.guards + 1]
           \/ /\ frame' = [Raise(frame, "template error") EXCEPT
                             !.data_file_paths = paths]
              /\ hist' = Fault(hist, "template error")
    /\ UNCHANGED <<now, missing, extraction_log, air_quality>>

\* Lines 212-214 and 151-168: delete_existing_data, one month per step
Guard ==
    /\ frame.pc = "guard"
    /\ IF frame.index_date <= strptime(frame.end_date)
       THEN \/ /\ air_quality' = delete_month(air_quality, frame.index_date)
               /\ frame' = [frame EXCEPT !.index_date = frame.index_date + 1]
               /\ hist' = [hist EXCEPT !.deleted = Append(hist.deleted, frame.index_date)]
            \/ /\ frame' = Raise(frame, "delete error")
               /\ hist' = Fault(hist, "delete error")
               /\ UNCHANGED air_quality
       ELSE /\ frame' = [frame EXCEPT !.pc = "load"]
            /\ UNCHANGED <<air_quality, hist>>
    /\ UNCHANGED <<now, missing, extraction_log>>

\* The loop catching every error of a load, not only IOException
after_load_catch_all(f, outcome) ==
    IF outcome = "ok"
    THEN [f EXCEPT !.i = f.i + 1,
                   !.successful_extractions = f.successful_extractions + 1]
    ELSE [f EXCEPT !.i = f.i + 1]

\* The loop catching no error of a load
after_load_catch_none(f, outcome) ==
    IF outcome = "ok"
    THEN [f EXCEPT !.i = f.i + 1,
                   !.successful_extractions = f.successful_extractions + 1]
    ELSE Raise(f, "load error")

\* Lines 226-231: what the loop does with the engine's answer to one load
after_load(f, outcome) ==
    IF outcome = "ok"
    THEN [f EXCEPT !.i = f.i + 1,
                   !.successful_extractions = f.successful_extractions + 1]
    ELSE IF outcome = "not_found"
    THEN [f EXCEPT !.i = f.i + 1]
    ELSE Raise(f, "load error")

\* Lines 217-231: the load loop, one path per step
Load ==
    /\ frame.pc = "load"
    /\ IF frame.i <= Len(frame.data_file_paths)
       THEN LET path == frame.data_file_paths[frame.i]
            IN  \E outcome \in LoadOutcomes(path) :
                   /\ air_quality' = IF outcome = "ok"
                                     THEN load_partition(air_quality, path)
                                     ELSE air_quality
                   /\ frame' = after_load(frame, outcome)
                   /\ hist' = [hist EXCEPT
                                 !.attempted = Append(hist.attempted, path),
                                 !.inserted = hist.inserted
                                     + BagCardinality(air_quality')
                                     - BagCardinality(air_quality),
                                 !.faults = IF outcome = "error"
                                            THEN Append(hist.faults, "load error")
                                            ELSE hist.faults]
       ELSE /\ frame' = [frame EXCEPT !.pc = "count"]
            /\ UNCHANGED <<air_quality, hist>>
    /\ UNCHANGED <<now, missing, extraction_log>>

\* Lines 234-237: the row count of the range
Count ==
    /\ frame.pc = "count"
    /\ \/ /\ frame' = [frame EXCEPT !.pc = "complete",
                         !.records_extracted =
                            Set(count_rows(air_quality, frame.start_date, frame.end_date))]
          /\ UNCHANGED hist
       \/ /\ frame' = Raise(frame, "count error")
          /\ hist' = Fault(hist, "count error")
    /\ UNCHANGED <<now, missing, extraction_log, air_quality>>

\* Line 240: log_extraction_complete
Complete ==
    /\ frame.pc = "complete"
    /\ \E id \in frame.extraction_id, n \in frame.records_extracted :
          \/ /\ extraction_log' = log_extraction_complete(extraction_log, id, n, now)
             /\ frame' = [frame EXCEPT !.pc = "finally"]
             /\ hist' = [hist EXCEPT !.calls =
                            Left(Called(hist.calls, id, "complete"), id,
                                 extraction_log, extraction_log')]
          \/ /\ frame' = Raise(frame, "complete error")
             /\ hist' = [Fault(hist, "complete error") EXCEPT !.calls =
                            Raised(Called(hist.calls, id, "complete"), id, "complete")]
             /\ UNCHANGED extraction_log
    /\ UNCHANGED <<now, missing, air_quality>>

\* The except clause without its log_extraction_failed call
HandleException_no_fail ==
    /\ frame.pc = "except"
    /\ frame' = [frame EXCEPT !.pc = "finally"]
    /\ UNCHANGED <<now, missing, extraction_log, air_quality, hist>>

\* The except clause without its 'extraction_id' in locals() test: with no job
\* of its own it marks the latest job of the ledger
HandleException_latest_job ==
    /\ frame.pc = "except"
    /\ LET ids == IF frame.extraction_id # Unset THEN frame.extraction_id
                  ELSE IF extraction_log # <<>> THEN {Len(extraction_log)} ELSE {}
       IN  IF ids # {}
           THEN \E id \in ids, msg \in frame.exc :
                   /\ extraction_log' = log_extraction_failed(extraction_log, id, msg, now)
                   /\ frame' = [frame EXCEPT !.pc = "finally"]
                   /\ hist' = [hist EXCEPT !.calls =
                                  Left(Called(hist.calls, id, "fail"), id,
                                       extraction_log, extraction_log')]
           ELSE /\ frame' = [frame EXCEPT !.pc = "finally"]
                /\ UNCHANGED <<extraction_log, hist>>
    /\ UNCHANGED <<now, missing, air_quality>>

\* Lines 242-246: the except clause
HandleException ==
    /\ frame.pc = "except"
    /\ IF frame.extraction_id # Unset
       THEN \E id \in frame.extraction_id, msg \in frame.exc :
               \/ /\ extraction_log' = log_extraction_failed(extraction_log, id, msg, now)
                  /\ frame' = [frame EXCEPT !.pc = "finally"]
                  /\ hist' = [hist EXCEPT !.calls =
                                 Left(Called(hist.calls, id, "fail"), id,
                                      extraction_log, extraction_log')]
               \/ /\ frame' = [frame EXCEPT !.pc = "finally",
                                            !.exc = Set("fail error")]
                  /\ hist' = [Fault(hist, "fail error") EXCEPT !.calls =
                                 Raised(Called(hist.calls, id, "fail"), id, "fail")]
                  /\ UNCHANGED extraction_log
       ELSE /\ frame' = [frame EXCEPT !.pc = "finally"]
            /\ UNCHANGED <<extraction_log, hist>>
    /\ UNCHANGED <<now, missing, air_quality>>

\* The finally clause ending every run by a normal return: the error is swallowed
Finally_returns ==
    /\ frame.pc = "finally"
    /\ frame' = [frame EXCEPT !.pc = "done", !.outcome = "returned"]
    /\ hist' = [hist EXCEPT !.closes = hist.closes + 1]
    /\ UNCHANGED <<now, missing, extraction_log, air_quality>>

\* Line 248: the finally clause, then the return or the re-raise
Finally ==
    /\ frame.pc = "finally"
    /\ frame' = [frame EXCEPT !.pc = "done",
                    !.outcome = IF frame.exc = Unset THEN "returned" ELSE "raised"]
    /\ hist' = [hist EXCEPT !.closes = hist.closes + 1]
    /\ UNCHANGED <<now, missing, extraction_log, air_quality>>

RunStep ==
    \/ Resolve \/ CheckUpToDate \/ Open \/ Prepare \/ Guard \/ Load
    \/ Count \/ Complete \/ HandleException \/ Finally

Next == Tick \/ StartRun \/ RunStep

Spec == Init /\ [][Next]_vars

\* extract_data is sequential code: a run that has started keeps taking steps
FairSpec == Spec /\ WF_vars(RunStep)

-----------------------------------------------------------------------------
(* compile_data_file_paths on its own: the driver at line 201, its job opened, *)
(* for every registry and every manual range of a few months around a new year *)

PathsFirstMonth == <<2023, 11>>
PathDates == {strftime(strptime(PathsFirstMonth) + k) : k \in 0 .. (PathMonths - 1)}

RegistryIds == {"A", "B", "C"}
\* locations.json: a JSON object, its keys are distinct
Registries ==
    UNION {{q \in [1 .. n -> RegistryIds] : \A j, k \in 1 .. n : j # k => q[j] # q[k]}
              : n \in 0 .. MaxLocations}

PathsInit ==
    /\ now = strptime(ClockStart)
    /\ missing = {}
    /\ air_quality = EmptyBag
    /\ \E location_ids \in Registries, s \in PathDates, e \in PathDates :
          /\ extraction_log = log_extraction_start(<<>>, s, e, now)
          /\ frame = [NoFrame EXCEPT !.pc = "prepare",
                                     !.location_ids = location_ids,
                                     !.arg_start = s, !.arg_end = e,
                                     !.start_date = s, !.end_date = e,
                                     !.extraction_id = Set(1)]
    /\ hist = [NoHist EXCEPT !.runs = 1, !.opens = 1,
                             !.calls = <<[complete |-> 0, fail |-> 0,
                                          left |-> 0, raised |-> {}]>>]

PathsSpec == PathsInit /\ [][Prepare]_vars

-----------------------------------------------------------------------------
(* Shorthands for the properties *)

Running == frame.pc \notin {"idle", "done"}
Done == frame.pc = "done"
JobOpened == frame.extraction_id # Unset
Job == extraction_log[CHOOSE id \in frame.extraction_id : TRUE]
JobCalls == hist.calls[CHOOSE id \in frame.extraction_id : TRUE]
Injected(msg) == \E k \in DOMAIN hist.faults : hist.faults[k] = msg

-----------------------------------------------------------------------------
(* C1: one terminal transition per job *)

Terminal(row) == row.status \in {"completed", "failed"}

\* A job whose run is over: every job but the one of a run still in progress
Closed(id) == ~(Running /\ id \in frame.extraction_id)

\* C1 as claimed: for every job whose run is over, exactly one of
\* log_extraction_complete / log_extraction_failed was invoked and its status
\* left 'running' exactly once.
C1_ExactlyOneTerminalCall ==
    \A id \in DOMAIN extraction_log :
        Closed(id) =>
            /\ hist.calls[id].complete + hist.calls[id].fail = 1
            /\ hist.calls[id].left = 1

C1_CallsBounded ==
    \A id \in DOMAIN extraction_log :
        LET c == hist.calls[id]
        IN  /\ c.complete <= 1 /\ c.fail <= 1 /\ c.left <= 1
            /\ Closed(id) =>
                  /\ c.complete + c.fail >= 1
                  /\ (c.complete = 1 /\ c.fail = 1) <=> ("complete" \in c.raised)
                  /\ (c.left = 1) <=> ("fail" \notin c.raised)
                  /\ (c.left = 0) => extraction_log[id].status = "running"
                  /\ (c.left = 1) => Terminal(extraction_log[id])

C1_TerminalIsFinal ==
    \A id \in DOMAIN extraction_log :
        Terminal(extraction_log[id]) =>
            /\ id \in DOMAIN extraction_log'
            /\ extraction_log'[id] = extraction_log[id]

\* C1 as amended: for every job, log_extraction_complete and
\* log_extraction_failed are each invoked at most once and at least one of them
\* is invoked before the run returns; both are invoked exactly when the complete
\* write itself raised; the status leaves 'running' at most once, and exactly
\* once unless the log_extraction_failed write raised (the job then stays
\* 'running'); a job that reached 'completed' or 'failed' never changes again.
C1_OneTerminalTransition == [](C1_CallsBounded) /\ [][C1_TerminalIsFinal]_vars

\* A job closed by log_extraction_failed after its complete write raised, while
\* an earlier job sits in a terminal state
C1_Witness ==
    /\ Done /\ JobOpened
    /\ JobCalls.complete = 1 /\ JobCalls.fail = 1 /\ Job.status = "failed"
    /\ \E id \in DOMAIN extraction_log :
          id \notin frame.extraction_id /\ Terminal(extraction_log[id])

-----------------------------------------------------------------------------
(* C2: the run ends, and its job is closed before it returns *)

\* C2 as claimed: when extract_data has returned or raised, the job it opened
\* is not in status 'running'.
C2_ClosedOnReturn ==
    (Done /\ JobOpened) => Job.status # "running"

C2_ClosedUnlessFailRaised ==
    (Done /\ JobOpened) =>
        /\ (Job.status = "running") <=> ("fail" \in JobCalls.raised)
        /\ (Job.status = "running") => frame.outcome = "raised"

\* C2 as amended: every run of extract_data terminates, and when it returns
\* (normally or by raising) the job it opened is 'completed' or 'failed',
\* unless the log_extraction_failed write itself raised: the job is then still
\* 'running' and the run ends by raising.
C2_TerminatesClosed == (Running ~> Done) /\ [](C2_ClosedUnlessFailRaised)

\* A run that raised after its job was closed as 'failed'
C2_Witness ==
    Done /\ JobOpened /\ frame.outcome = "raised" /\ Job.status = "failed"

-----------------------------------------------------------------------------
(* C3: a manual reload is idempotent *)

ManualCompleted == Done /\ ~frame.incremental /\ JobOpened /\ Job.status = "completed"

\* The previous run was a completed manual run over the same range
SameAsPrevious ==
    /\ hist.prev # None
    /\ ~hist.prev[1].incremental
    /\ hist.prev[1].completed
    /\ hist.prev[1].start_date = frame.start_date
    /\ hist.prev[1].end_date = frame.end_date

RangeMonths == [k \in 1 .. (strptime(frame.end_date) - strptime(frame.start_date) + 1)
                   |-> strptime(frame.start_date) + k - 1]

\* C3: a completed manual run that follows a completed manual run over the same
\* range (the remote source being the same) leaves raw.air_quality as the first
\* run left it, partition by partition, and records the same row count; and in
\* a manual run every month of the range has been deleted, in order, before the
\* first load is submitted.
C3_ManualReloadIdempotent ==
    /\ (ManualCompleted /\ SameAsPrevious) =>
          /\ air_quality = hist.table0
          /\ \A id \in hist.prev[1].job :
                Job.records_extracted = extraction_log[id].records_extracted
    /\ (~frame.incremental /\ hist.attempted # <<>>) => hist.deleted = RangeMonths

\* The second of two completed manual runs over the same non-empty range, with
\* rows in the table
C3_Witness ==
    /\ ManualCompleted /\ SameAsPrevious
    /\ strptime(frame.start_date) < strptime(frame.end_date)
    /\ hist.inserted > 0
    /\ hist.table0 # EmptyBag

-----------------------------------------------------------------------------
(* C4: consecutive successful incremental runs *)

IncrementalCompleted == Done /\ frame.incremental /\ JobOpened /\ Job.status = "completed"

PrevIncrementalCompleted ==
    /\ hist.prev # None
    /\ hist.prev[1].incremental
    /\ hist.prev[1].completed

\* This run's range starts the month after the previous run's range ends, and
\* does not end before it: no month in both ranges, no month between them
Continues ==
    /\ strptime(frame.start_date) = strptime(hist.prev[1].end_date) + 1
    /\ strptime(frame.end_date) >= strptime(hist.prev[1].end_date)

\* C4 as claimed: a completed incremental run that follows a completed
\* incremental run starts the month after the previous run's end_month.
C4_IncrementalMonotone ==
    (IncrementalCompleted /\ PrevIncrementalCompleted) => Continues

\* C4 as amended: the same, for runs whose ledger read in the resolver succeeded
\* (a failed read makes the run start at the current month - 3 months).
C4_IncrementalMonotoneIfRead ==
    (IncrementalCompleted /\ PrevIncrementalCompleted /\ hist.resolved # None) => Continues

\* The second of two completed incremental runs, the clock having reached a
\* later month in between
C4_Witness ==
    /\ IncrementalCompleted /\ PrevIncrementalCompleted /\ hist.resolved # None
    /\ strptime(frame.start_date) <= strptime(frame.end_date)
    /\ hist.inserted > 0

-----------------------------------------------------------------------------
(* C5: an incremental run starts after every month that has rows *)

MonthOfRow(r) == strptime(<<r.year, r.month>>)

\* C5 as claimed: once an incremental run has resolved its range, the range
\* starts strictly after every month for which raw.air_quality held rows when the
\* run started, and no partition ever holds the rows of its file twice.
C5_IncrementalAfterLoaded ==
    /\ (frame.incremental /\ frame.start_date # None) =>
          \A r \in DOMAIN hist.table0 : MonthOfRow(r) < strptime(frame.start_date)
    /\ \A r \in DOMAIN air_quality : air_quality[r] <= RowsPerFile

-----------------------------------------------------------------------------
(* C6: nothing to do when the ledger is at the current month *)

\* C6 as claimed: when the ledger reads of an incremental run succeeded and the
\* up-to-date test read a last successful end_month equal to the current
\* month, the run opens no job, deletes nothing, loads nothing and returns
\* without raising.
C6_NoOpWhenCurrent ==
    (/\ frame.incremental
     /\ hist.resolved # None
     /\ hist.checked # None
     /\ hist.checked[1].last = hist.checked[1].month) =>
        /\ ~JobOpened
        /\ frame.pc \in {"finally", "done"}
        /\ hist.attempted = <<>>
        /\ hist.deleted = <<>>
        /\ Done => frame.outcome = "returned"

-----------------------------------------------------------------------------
(* C7: a manual range with start after end *)

\* C7 as claimed: a manual run whose start_month is later than its end_month
\* inserts no job row, deletes nothing, loads nothing and ends by raising.
C7_EmptyRangeRejected ==
    (/\ ~frame.incremental
     /\ frame.start_date # None
     /\ strptime(frame.start_date) > strptime(frame.end_date)) =>
        /\ ~JobOpened
        /\ hist.attempted = <<>>
        /\ hist.deleted = <<>>
        /\ Done => frame.outcome = "raised"

-----------------------------------------------------------------------------
(* C8: a hard load error stops the run *)

CompiledPaths ==
    compile_data_file_paths(Locations, frame.start_date, frame.end_date)

\* The paths attempted so far are the first paths of the compiled sequence
AttemptedPrefix ==
    /\ Len(hist.attempted) <= Len(frame.data_file_paths)
    /\ hist.attempted = SubSeq(frame.data_file_paths, 1, Len(hist.attempted))

\* The failing path is the last one attempted
StoppedAtError ==
    AttemptedPrefix /\ Len(hist.attempted) = frame.i

\* C8 as claimed: after a load raised an error other than 'not found', no
\* later path is attempted, the job is never 'completed', and when the run has
\* ended the job is 'failed' with the error's message.
C8_FailFast ==
    Injected("load error") =>
        /\ StoppedAtError
        /\ Job.status # "completed"
        /\ Done => /\ Job.status = "failed"
                   /\ Job.error_message = Set("load error")

\* C8 as amended: after a load raised an error other than 'not found', no
\* later path is attempted and the job is never 'completed'; when the run has
\* ended the job is 'failed' with the error's message, unless the
\* log_extraction_failed write itself raised, in which case it is 'running'.
C8_FailFastUnlessFailRaised ==
    Injected("load error") =>
        /\ StoppedAtError
        /\ Job.status # "completed"
        /\ Done => IF "fail" \in JobCalls.raised
                   THEN Job.status = "running"
                   ELSE /\ Job.status = "failed"
                        /\ Job.error_message = Set("load error")

\* A run that failed on a path that is neither the first nor the last
C8_Witness ==
    /\ Done /\ Injected("load error") /\ Job.status = "failed"
    /\ frame.i > 1 /\ frame.i < Len(frame.data_file_paths)
    /\ hist.inserted > 0

-----------------------------------------------------------------------------
(* C9: 'not found' does not stop the run *)

\* C9: the paths are attempted once each in the order of the compiled sequence;
\* a run that opened its job and met no error other than 'not found' ends with
\* the job 'completed'; and a job is 'completed' only when every path of the
\* compiled sequence has been attempted.
C9_NotFoundTolerated ==
    /\ AttemptedPrefix
    /\ (Done /\ JobOpened /\ hist.faults = <<>>) => Job.status = "completed"
    /\ (JobOpened /\ Job.status = "completed") => hist.attempted = CompiledPaths

NotFoundAt(k) ==
    <<hist.attempted[k].location_id,
      <<hist.attempted[k].year, hist.attempted[k].month>>>> \in missing

\* A completed run in which two paths were not found, with loads after each
C9_Witness ==
    /\ Done /\ JobOpened /\ Job.status = "completed"
    /\ hist.inserted > 0
    /\ \E j, k \in DOMAIN hist.attempted :
          j < k /\ k < Len(hist.attempted) /\ NotFoundAt(j) /\ NotFoundAt(k)

-----------------------------------------------------------------------------
(* C10: records_extracted of a completed job *)

\* C10 as claimed: the records_extracted of a completed job is the number of
\* rows this run's loads inserted.
C10_RecordsAreRowsLoaded ==
    (Done /\ JobOpened /\ Job.status = "completed") =>
        Job.records_extracted = Set(hist.inserted)

-----------------------------------------------------------------------------
(* C11: an error after the job was opened fails the job and reaches the caller *)

\* The first error the environment injected into this run
FirstFault == hist.faults[1]

\* The run has ended, having opened a job and met an error after that
EndedWithError == Done /\ JobOpened /\ hist.faults # <<>>

\* C11 as claimed: when a run that opened a job has met an error (guard delete,
\* template read, hard load error, row count, complete write), the job is
\* 'failed' with that error's message and the run ends by raising.
C11_ErrorFailsJobAndPropagates ==
    EndedWithError =>
        /\ Job.status = "failed"
        /\ Job.error_message = Set(FirstFault)
        /\ frame.outcome = "raised"

\* C11 as amended: a run that met any error ends by raising, and a run that
\* returned normally met none; the job it had opened is 'failed' with the
\* message of the first error and log_extraction_failed was called once,
\* unless the log_extraction_failed write itself raised: the job is then still
\* 'running', with no message, and the error raised to the caller is the one
\* of that write.
C11_ErrorFailsJobUnlessFailRaised ==
    /\ (Done /\ (hist.faults # <<>> \/ frame.exc # Unset)) => frame.outcome = "raised"
    /\ (Done /\ frame.outcome = "returned") => (hist.faults = <<>> /\ frame.exc = Unset)
    /\ EndedWithError =>
          /\ JobCalls.fail = 1
          /\ IF "fail" \in JobCalls.raised
             THEN /\ Job.status = "running"
                  /\ Job.error_message = Unset
                  /\ frame.exc = Set("fail error")
             ELSE /\ Job.status = "failed"
                  /\ Job.error_message = Set(FirstFault)
                  /\ frame.exc = Set(FirstFault)

\* A manual run whose guard failed at its second month: the job is 'failed'
\* with the delete error and the run raised
C11_Witness ==
    /\ EndedWithError /\ FirstFault = "delete error"
    /\ Len(hist.deleted) = 1
    /\ Job.status = "failed" /\ Job.error_message = Set("delete error")
    /\ frame.outcome = "raised"

-----------------------------------------------------------------------------
(* C12: a configuration error is raised before any job is opened *)

MissingDates == "start_date and end_date are required"
LocationsUnreadable == "locations unreadable"

\* The run met a configuration error
ConfigError == frame.exc \in {Set(MissingDates), Set(LocationsUnreadable)}

C12_NothingWritten ==
    ConfigError =>
        /\ ~JobOpened
        /\ extraction_log = hist.log0
        /\ air_quality = hist.table0
        /\ hist.attempted = <<>> /\ hist.deleted = <<>>
        /\ Done => frame.outcome = "raised"

C12_NoLedgerCall ==
    ConfigError' => (extraction_log' = extraction_log /\ hist'.calls = hist.calls)

RaisesConfigError ==
    \/ ~frame.incremental /\ (frame.arg_start = None \/ frame.arg_end = None)
    \/ frame.exc = Set(LocationsUnreadable)

\* C12: a run with a configuration error (manual mode with start_date or
\* end_date missing, unreadable location source) opens no job, leaves
\* raw.extraction_log and raw.air_quality as they were when it started, calls
\* neither log_extraction_complete nor log_extraction_failed at any step, and
\* ends by raising; a manual run with a date missing always ends that way.
C12_ConfigErrorBeforeOpen ==
    /\ [](C12_NothingWritten)
    /\ [][C12_NoLedgerCall]_vars
    /\ []((Done /\ RaisesConfigError) => (ConfigError /\ frame.outcome = "raised"))

\* A manual run with a date missing has raised, with jobs in the ledger and
\* rows in the table from the run before
C12_Witness ==
    /\ Done /\ frame.exc = Set(MissingDates) /\ frame.outcome = "raised"
    /\ extraction_log # <<>> /\ air_quality # EmptyBag
    /\ hist.closes = 1

-----------------------------------------------------------------------------
(* C13: the guard runs in manual mode only *)

C13_GuardOnlyManual ==
    /\ hist.guards <= 1
    /\ (hist.guards = 1) => (~frame.incremental /\ JobOpened)
    /\ (hist.deleted # <<>>) => hist.guards = 1
    /\ (Done /\ ~frame.incremental /\ JobOpened) =>
          ((hist.guards = 1) <=> ~Injected("template error"))
    /\ (hist.guards = 1) => hist.deleted = SubSeq(RangeMonths, 1, Len(hist.deleted))

\* No step of an incremental run removes a row of raw.air_quality
C13_IncrementalKeepsRows ==
    frame'.incremental =>
        \A r \in DOMAIN air_quality :
            r \in DOMAIN air_quality' /\ air_quality'[r] >= air_quality[r]

-----------------------------------------------------------------------------
(* C14: the paths compile_data_file_paths returns *)

\* The calendar month after a "YYYY-MM"
NextMonth(ym) == IF ym[2] = 12 THEN <<ym[1] + 1, 1>> ELSE <<ym[1], ym[2] + 1>>

MonthOf(path) == <<path.year, path.month>>

InRange(ym, s, e) == StrLeq(s, ym) /\ StrLeq(ym, e)

\* paths holds one path per (location, month of [s, e]), and nothing else
OnePerPair(paths, location_ids, s, e) ==
    /\ \A k \in DOMAIN paths :
          /\ \E j \in DOMAIN location_ids : paths[k].location_id = location_ids[j]
          /\ InRange(MonthOf(paths[k]), s, e)
    /\ \A j \in DOMAIN location_ids, ym \in PathDates :
          InRange(ym, s, e) =>
              Cardinality({k \in DOMAIN paths :
                              /\ paths[k].location_id = location_ids[j]
                              /\ MonthOf(paths[k]) = ym}) = 1

\* Position of a location in the registry
RegistryPos(location_ids, id) == CHOOSE j \in DOMAIN location_ids : location_ids[j] = id

\* Locations in registry order; within a location, each month follows the one before
Ordered(paths, location_ids) ==
    \A k \in DOMAIN paths :
        k + 1 \in DOMAIN paths =>
            IF paths[k + 1].location_id = paths[k].location_id
            THEN MonthOf(paths[k + 1]) = NextMonth(MonthOf(paths[k]))
            ELSE RegistryPos(location_ids, paths[k].location_id)
                    < RegistryPos(location_ids, paths[k + 1].location_id)

Example ==
    <<[location_id |-> "A", year |-> 2024, month |-> 1],
      [location_id |-> "A", year |-> 2024, month |-> 2],
      [location_id |-> "B", year |-> 2024, month |-> 1],
      [location_id |-> "B", year |-> 2024, month |-> 2]>>

Compiled == frame.pc # "prepare"

\* C14: for every registry and every range with start_month <= end_month, the
\* sequence compile_data_file_paths returned holds exactly one path per
\* (location, month of the range), ordered by location in registry order and,
\* within a location, month after month across year boundaries; it is the one
\* sequence the same inputs give; and for [A, B] and 2024-01..2024-02 it is
\* [(A,2024-01),(A,2024-02),(B,2024-01),(B,2024-02)].
C14_PathsEnumerated ==
    (Compiled /\ StrLeq(frame.start_date, frame.end_date)) =>
        /\ OnePerPair(frame.data_file_paths, frame.location_ids,
                      frame.start_date, frame.end_date)
        /\ Ordered(frame.data_file_paths, frame.location_ids)
        /\ frame.data_file_paths =
              compile_data_file_paths(frame.location_ids, frame.start_date, frame.end_date)
        /\ (/\ frame.location_ids = <<"A", "B">>
            /\ frame.start_date = <<2024, 1>>
            /\ frame.end_date = <<2024, 2>>) => frame.data_file_paths = Example

\* Three locations and a range from 2023-11 to 2024-02 compiled: twelve paths
C14_Witness ==
    /\ Compiled
    /\ Len(frame.location_ids) = 3
    /\ frame.start_date = <<2023, 11>> /\ frame.end_date = <<2024, 2>>
    /\ Len(frame.data_file_paths) = 12

-----------------------------------------------------------------------------
(* C15: the range of an incremental job *)

\* C15 as claimed: whenever an incremental run has opened a job, that job's
\* start_date is not later than its end_date, whatever the ledger holds, the
\* clock reads and each ledger read returned.
C15_IncrementalRangeOrdered ==
    (frame.incremental /\ JobOpened) => StrLeq(Job.start_date, Job.end_date)

-----------------------------------------------------------------------------
(* C16: the range determine_date_range returns *)

\* The calendar month before a "YYYY-MM"
PrevMonth(ym) == IF ym[2] = 1 THEN <<ym[1] - 1, 12>> ELSE <<ym[1], ym[2] - 1>>

ThreeMonthsBefore(ym) == PrevMonth(PrevMonth(PrevMonth(ym)))

\* The step in which an incremental run resolves its range
ResolvesIncremental == frame.pc = "resolve" /\ frame.incremental /\ frame' # frame

C16_Resolved ==
    ResolvesIncremental =>
        LET last == last_successful_extraction(extraction_log)
            read == hist'.resolved
        IN  /\ frame'.pc = "check" /\ frame'.exc = Unset
            /\ hist'.faults = hist.faults
            /\ frame'.end_date = strftime(now)
            /\ read \in {last, None}
            /\ read # None => frame'.start_date = NextMonth(read)
            /\ read = None => frame'.start_date = ThreeMonthsBefore(strftime(now))

\* C16: in incremental mode determine_date_range returns end_month = the
\* current month, and start_month = the month after the last successful
\* end_month (January of the next year after a December) when the ledger read
\* yields one, and start_month = the current month - 3 months when there is no
\* successful run and when the ledger read raises; the resolver never raises.
C16_ResolvedRange == [][C16_Resolved]_vars

\* A range resolved in January 2025 from a last successful end_month 2024-12
C16_Witness ==
    /\ frame.incremental /\ frame.pc = "check"
    /\ hist.resolved = <<2024, 12>>
    /\ frame.start_date = <<2025, 1>> /\ frame.end_date = <<2025, 1>>

-----------------------------------------------------------------------------
(* C17: the job is opened once, after the range and before any delete or load *)

\* The run has ended, and neither took the "already up to date" return nor
\* failed while its range was resolved
EndedPastResolution == Done /\ ~hist.short_circuit /\ ~ConfigError

C17_OpenedOnceFirst ==
    /\ hist.opens <= 1
    /\ EndedPastResolution => hist.opens = 1
    /\ (hist.short_circuit \/ ConfigError) => hist.opens = 0
    /\ (hist.opens = 1) => (frame.start_date # None /\ frame.end_date # None)
    /\ (hist.guards = 1 \/ hist.deleted # <<>> \/ hist.attempted # <<>>) =>
          (hist.opens = 1 /\ JobOpened)
    /\ (hist.opens = 1) => (JobOpened <=> ~Injected("open error"))
    /\ JobOpened =>
          /\ Job.start_date = frame.start_date /\ Job.end_date = frame.end_date
          /\ Len(extraction_log) = Len(hist.log0) + 1
    /\ Injected("open error") =>
          /\ extraction_log = hist.log0 /\ air_quality = hist.table0
          /\ hist.guards = 0 /\ hist.deleted = <<>> /\ hist.attempted = <<>>
          /\ Done => (frame.outcome = "raised" /\ frame.exc = Set("open error"))

\* The step in which log_extraction_start is called and returns
C17_OpenInsertsRunning ==
    (hist'.opens # hist.opens /\ frame'.extraction_id # Unset) =>
        /\ hist.guards = 0 /\ hist.deleted = <<>> /\ hist.attempted = <<>>
        /\ air_quality' = air_quality
        /\ Len(extraction_log') = Len(extraction_log) + 1
        /\ SubSeq(extraction_log', 1, Len(extraction_log)) = extraction_log
        /\ LET row == extraction_log'[Len(extraction_log')]
           IN  /\ frame'.extraction_id = Set(row.extraction_id)
               /\ row.status = "running"
               /\ row.start_date = frame.start_date
               /\ row.end_date = frame.end_date

\* C17: in every run that neither short-circuits nor fails during range
\* resolution log_extraction_start is called exactly once (and in the other
\* runs never), after the range is resolved and before any guard delete and any
\* partition load; it appends one row with status 'running' and the resolved
\* start_date / end_date; if the open itself fails, the ledger and the table
\* are unchanged, no delete and no load is executed and the run raises.
C17_OpenOnceBeforeWork ==
    [](C17_OpenedOnceFirst) /\ [][C17_OpenInsertsRunning]_vars

\* A manual run, not the first, that opened its job and then deleted and loaded
C17_Witness ==
    /\ Done /\ ~frame.incremental /\ hist.opens = 1 /\ JobOpened
    /\ hist.deleted # <<>> /\ hist.inserted > 0 /\ hist.log0 # <<>>

-----------------------------------------------------------------------------
(* C18: what delete_existing_data deletes *)

SeqRange(q) == {q[k] : k \in DOMAIN q}

\* The table without the rows of some months
TableWithout(table, months) ==
    [r \in {x \in DOMAIN table : MonthOfRow(x) \notin months} |-> table[r]]

\* delete_existing_data has been called and no load has followed yet
InGuard == hist.guards = 1 /\ hist.attempted = <<>>

\* delete_existing_data has returned
GuardCompleted == InGuard /\ frame.pc = "load"

\* C18: delete_existing_data issues its deletes month by month in ascending
\* order, one per month of [start, end]; at every point the table is the table
\* it was called on without the rows of the months deleted so far, every other
\* row unchanged; when it has returned every month of the range has been
\* deleted once and no row of the range remains; when a delete has failed at
\* month m, exactly the months of the range before m have been deleted.
C18_GuardDeletesRange ==
    InGuard =>
        /\ hist.deleted = SubSeq(RangeMonths, 1, Len(hist.deleted))
        /\ air_quality = TableWithout(hist.table0, SeqRange(hist.deleted))
        /\ GuardCompleted =>
              /\ hist.deleted = RangeMonths
              /\ \A r \in DOMAIN air_quality :
                    ~InRange(MonthOf(r), frame.start_date, frame.end_date)
              /\ \A r \in DOMAIN hist.table0 :
                    ~InRange(MonthOf(r), frame.start_date, frame.end_date) =>
                        (r \in DOMAIN air_quality /\ air_quality[r] = hist.table0[r])
        /\ Injected("delete error") =>
              /\ frame.index_date = strptime(frame.start_date) + Len(hist.deleted)
              /\ frame.index_date <= strptime(frame.end_date)
              /\ \A r \in DOMAIN hist.table0 :
                    MonthOfRow(r) >= frame.index_date =>
                        (r \in DOMAIN air_quality /\ air_quality[r] = hist.table0[r])

\* The guard has returned from a range of two months, having deleted rows and
\* left rows of earlier months
C18_Witness ==
    /\ GuardCompleted /\ Len(hist.deleted) = 2
    /\ air_quality # EmptyBag /\ air_quality # hist.table0

-----------------------------------------------------------------------------
(* C19: the columns of a job row *)

RowWellFormed(row) ==
    /\ row.status \in {"running", "completed", "failed"}
    /\ row.status = "running" =>
          /\ row.extraction_end_datetime = Unset
          /\ row.records_extracted = Unset
          /\ row.error_message = Unset
    /\ row.status = "completed" =>
          /\ row.extraction_end_datetime # Unset
          /\ row.records_extracted # Unset
          /\ row.error_message = Unset
    /\ row.status = "failed" =>
          /\ row.extraction_end_datetime # Unset
          /\ row.error_message # Unset
          /\ row.records_extracted = Unset

C19_RowsWellFormed ==
    \A id \in DOMAIN extraction_log :
        /\ extraction_log[id].extraction_id = id
        /\ RowWellFormed(extraction_log[id])

\* What a step may change in the rows the ledger already has
C19_RowsKept ==
    \A id \in DOMAIN extraction_log :
        /\ id \in DOMAIN extraction_log'
        /\ extraction_log'[id].extraction_id = extraction_log[id].extraction_id
        /\ extraction_log'[id].start_date = extraction_log[id].start_date
        /\ extraction_log'[id].end_date = extraction_log[id].end_date
        /\ extraction_log'[id].extraction_start_datetime
              = extraction_log[id].extraction_start_datetime
        /\ extraction_log'[id] # extraction_log[id] =>
              /\ id \in frame.extraction_id
              /\ hist'.calls[id].complete + hist'.calls[id].fail
                    = hist.calls[id].complete + hist.calls[id].fail + 1

\* C19: in every ledger state a 'running' row has extraction_end_datetime,
\* records_extracted and error_message unset, a 'completed' row has
\* extraction_end_datetime and records_extracted set and error_message unset, a
\* 'failed' row has extraction_end_datetime and error_message set and
\* records_extracted unset; log_extraction_complete and log_extraction_failed
\* change only the row of the job they are called for and never its
\* extraction_id, start_date, end_date or extraction_start_datetime.
C19_RowColumns == [](C19_RowsWellFormed) /\ [][C19_RowsKept]_vars

\* A ledger with a completed job that counted rows and a failed job
C19_Witness ==
    /\ Done /\ Len(extraction_log) = 2
    /\ \E j, k \in DOMAIN extraction_log :
          /\ extraction_log[j].status = "completed"
          /\ extraction_log[j].records_extracted \notin {Unset, Set(0)}
          /\ extraction_log[k].status = "failed"
          /\ extraction_log[k].error_message = Set("complete error")

-----------------------------------------------------------------------------
(* C20: the connection is closed once *)

\* connect_to_database has returned a connection to this run
Connected == frame.pc \notin {"idle"} /\ frame.exc # Set(LocationsUnreadable)

\* C20 as claimed: when a run that obtained a connection has ended,
\* close_database_connection has been called exactly once, and once it has
\* been called the run issues no ledger or table operation.
C20_ClosedExactlyOnce ==
    /\ (Done /\ Connected) => hist.closes = 1
    /\ (hist.closes >= 1) => frame.pc \in {"finally", "done"}

====
